---- MODULE Spec2Model ----
(***************************************************************************)
(* RIS_Simulator front end: the App component (configuration state, the    *)
(* WebSocket to the simulation backend, snapshot application), the         *)
(* ConfigPanel inputs, the Dashboard charts and the Heatmap modal.         *)
(*                                                                         *)
(* Units.  JavaScript numbers are modelled as integers:                    *)
(*   lengths and coordinates in tenths of a metre   (1.5 m   -> 15)        *)
(*   frequencies in tenths of a GHz                 (3.5 GHz -> 35)        *)
(*   angles in degrees                              (-PI/4   -> -45)       *)
(*   phase coherence in tenths                      (0.5     -> 5)         *)
(* A JavaScript object is a function from its keys (strings) to values;    *)
(* an absent key is absent from the DOMAIN.                                *)
(***************************************************************************)
EXTENDS Integers, Sequences, FiniteSets, TLC

VARIABLES
    \* ---- App (src/unnamed/part_001) ----
    config,           \* useState config
    selectedRxId,     \* useState selectedRxId
    scenarioKey,      \* useState scenarioKey
    showHeatmap,      \* useState showHeatmap (Heatmap's isVisible)
    simulationState,  \* useState simulationState
    isRunning,        \* useState isRunning
    wsState,          \* ws.current.readyState
    fullConfigTimer,  \* TRUE while the 100 ms setTimeout of onopen is pending
    toBackend,        \* messages sent on the socket, not yet received
    fromBackend,      \* snapshots sent by the backend, not yet delivered
    backend,          \* the backend session (not in src/: from the spec)
    mounted,          \* the App is mounted (its effects' cleanups have not run)
    simClock,         \* Date.now(), startTimeRef.current and useState simulationTime
    \* ---- Heatmap (src/frontend/src/components/Dashboard.jsx) ----
    loading,          \* useState loading
    heatmapData,      \* useState heatmapData
    error,            \* useState error
    nextRefresh,      \* useState nextRefresh
    zoomOnRIS,        \* useState zoomOnRIS
    timerClosure,     \* config and zoomOnRIS seen by the interval's generateHeatmap
    inflight,         \* fetches awaiting their response
    ticks,            \* countdown ticks since the modal was opened
    autoRequests      \* generateHeatmap calls made by the countdown since then

appVars == <<config, selectedRxId, scenarioKey, showHeatmap, simulationState,
             isRunning, wsState, fullConfigTimer, toBackend, fromBackend, backend,
             mounted, simClock>>
heatVars == <<loading, heatmapData, error, nextRefresh, zoomOnRIS, timerClosure,
              inflight, ticks, autoRequests>>
vars == <<appVars, heatVars>>

----------------------------------------------------------------------------
(* Bounds of the model *)

MaxQueue == 1
MaxInflight == 1
MaxScenarioKey == 1
MaxTicks == 31
MaxRacing == 2
MaxNow == 4
MaxReloads == 2

----------------------------------------------------------------------------
(* JavaScript values *)

Null == "null"
\* null where an object is expected
NullObject == [null |-> TRUE]
\* parseFloat('') of an emptied number input; never equal to a real reading
NaN == -9999
\* JSON.stringify writes NaN as null
JsonNull == -9998
NoRot == <<>>

Has(obj, k) == k \in DOMAIN obj

\* { ...obj, [k]: v }
Put(obj, k, v) == [x \in (DOMAIN obj) \cup {k} |-> IF x = k THEN v ELSE obj[x]]

\* { ...a, ...b }
Merge(a, b) == [x \in (DOMAIN a) \cup (DOMAIN b) |-> IF x \in DOMAIN b THEN b[x] ELSE a[x]]

\* JSON.stringify of a number
JsonNumber(x) == IF x = NaN THEN JsonNull ELSE x

IsNumber(x) == x # NaN /\ x # JsonNull

Last(s) == s[Len(s)]

----------------------------------------------------------------------------
(* Preset scenarios (ConfigPanel, SCENARIOS) and the initial configuration *)

BasicScenario ==
    [tx_nodes |-> <<[id |-> "BS-1", pos |-> <<0, 50, 0>>, power_dbm |-> 20]>>,
     rx_nodes |-> <<[id |-> "UE-1", pos |-> <<50, 15, 50>>]>>,
     ris_nodes |-> <<[id |-> "RIS-1", pos |-> <<25, 25, 25>>, rotation |-> <<0, -45, 0>>,
                      size |-> 4, elements |-> 40]>>,
     frequency_ghz |-> 35]

MultiRisScenario ==
    [tx_nodes |-> <<[id |-> "BS-1", pos |-> <<-500, 250, 0>>, power_dbm |-> 46],
                    [id |-> "BS-2", pos |-> <<500, 250, 0>>, power_dbm |-> 46]>>,
     rx_nodes |-> <<[id |-> "UE-1", pos |-> <<0, 15, 400>>]>>,
     ris_nodes |-> <<[id |-> "RIS-1", pos |-> <<-250, 150, 200>>, rotation |-> <<0, 30, 0>>,
                      size |-> 26, elements |-> 256],
                     [id |-> "RIS-2", pos |-> <<250, 150, 200>>, rotation |-> <<0, -30, 0>>,
                      size |-> 26, elements |-> 256],
                     [id |-> "RIS-3", pos |-> <<-250, 150, -200>>, rotation |-> <<0, -30, 0>>,
                      size |-> 26, elements |-> 256],
                     [id |-> "RIS-4", pos |-> <<250, 150, -200>>, rotation |-> <<0, 30, 0>>,
                      size |-> 26, elements |-> 256]>>,
     frequency_ghz |-> 26]

NlosIndoorScenario ==
    [tx_nodes |-> <<[id |-> "BS", pos |-> <<0, 30, -100>>, power_dbm |-> 23]>>,
     rx_nodes |-> <<[id |-> "UE-1", pos |-> <<50, 15, 80>>],
                    [id |-> "UE-2", pos |-> <<-30, 15, 60>>],
                    [id |-> "UE-3", pos |-> <<0, 15, 100>>]>>,
     ris_nodes |-> <<[id |-> "RIS-1", pos |-> <<0, 25, 0>>, rotation |-> <<0, 0, 0>>,
                      size |-> 10, elements |-> 256]>>,
     frequency_ghz |-> 280,
     nlos_mode |-> TRUE]

ScenarioIds == {"basic", "multi_ris", "nlos_indoor"}

SCENARIOS(id) ==
    CASE id = "basic" -> BasicScenario
      [] id = "multi_ris" -> MultiRisScenario
      [] id = "nlos_indoor" -> NlosIndoorScenario

InitialConfig ==
    [tx_nodes |-> <<[id |-> "BS-1", pos |-> <<0, 50, 0>>, power_dbm |-> 20]>>,
     rx_nodes |-> <<[id |-> "UE-1", pos |-> <<50, 15, 50>>]>>,
     ris_nodes |-> <<[id |-> "RIS-1", pos |-> <<25, 25, 25>>, rotation |-> <<0, -45, 0>>,
                      size |-> 4, elements |-> 40]>>,
     frequency_ghz |-> 35,
     ris_bits |-> 2,
     cfo |-> 0,
     rx_mobility |-> "static"]

\* times in tenths of a second, the period of the simulation timer
InitialClock == [now |-> 0, startTime |-> 0, simulationTime |-> 0]

EmptyIQ == [real |-> <<>>, imag |-> <<>>, t |-> <<>>]

InitialSimulationState ==
    [pathloss_db |-> 0,
     rx_power |-> -100,
     tx_iq |-> EmptyIQ,
     rx_iq |-> EmptyIQ,
     connected |-> FALSE,
     distance_tx_ris |-> 0,
     distance_ris_rx |-> 0,
     rx_positions |-> <<>>]

----------------------------------------------------------------------------
(* App: messages and pure state updates *)

Undefined == -9997

NumericKeys == {"frequency_ghz", "ris_bits", "cfo", "tx_power_dbm", "phase_coherence"}

\* JSON.stringify({ [key]: value })
SingleKeyMessage(key, value) ==
    [x \in {key} |-> IF key \in NumericKeys THEN JsonNumber(value) ELSE value]

\* What the first render's sendFullConfig closes over: the effect that installs
\* onopen has an empty dependency list, so it keeps that render's callback.
MountClosure == [config |-> InitialConfig, selectedRxId |-> Null, isRunning |-> FALSE]

FullConfigMessage(c) ==
    [tx_nodes |-> c.config.tx_nodes,
     rx_nodes |-> c.config.rx_nodes,
     ris_nodes |-> c.config.ris_nodes,
     frequency_ghz |-> JsonNumber(c.config.frequency_ghz),
     ris_bits |-> JsonNumber(c.config.ris_bits),
     cfo |-> JsonNumber(c.config.cfo),
     rx_mobility |-> c.config.rx_mobility,
     selected_rx_id |-> c.selectedRxId,
     running |-> c.isRunning]

\* JSON.stringify(freshConfig)
ScenarioMessage(fresh) ==
    [x \in DOMAIN fresh |-> IF x \in NumericKeys THEN JsonNumber(fresh[x]) ELSE fresh[x]]

GetNum(data, k) == IF Has(data, k) THEN data[k] ELSE Undefined
GetSeq(data, k) == IF Has(data, k) THEN data[k] ELSE <<>>

\* Variant of SnapshotState in which the Rx buffer keeps its previous time axis
SnapshotStateKeepingRxTime(prev, data) ==
    [prev EXCEPT
        !.pathloss_db = GetNum(data, "pathloss_db"),
        !.rx_power = GetNum(data, "rx_power_dbm"),
        !.tx_iq = [real |-> GetSeq(data, "tx_iq_real"), imag |-> GetSeq(data, "tx_iq_imag"),
                   t |-> GetSeq(data, "t")],
        !.rx_iq = [real |-> GetSeq(data, "rx_iq_real"), imag |-> GetSeq(data, "rx_iq_imag"),
                   t |-> prev.rx_iq.t],
        !.distance_tx_ris = GetNum(data, "distance_tx_ris"),
        !.distance_ris_rx = GetNum(data, "distance_ris_rx")]

\* Variant of SnapshotConfig that rebuilds the receiver list from rx_positions,
\* dropping the receivers the snapshot does not mention
SnapshotConfigFromPositions(prev, data) ==
    IF Has(data, "rx_positions") /\ Len(data.rx_positions) > 0
    THEN [prev EXCEPT !.rx_nodes =
            [i \in 1..Len(data.rx_positions) |->
                [id |-> prev.rx_nodes[1].id, pos |-> data.rx_positions[i]]]]
    ELSE prev

\* setSimulationState(prev => ({ ...prev, pathloss_db: data.pathloss_db, ... }))
SnapshotState(prev, data) ==
    [prev EXCEPT
        !.pathloss_db = GetNum(data, "pathloss_db"),
        !.rx_power = GetNum(data, "rx_power_dbm"),
        !.tx_iq = [real |-> GetSeq(data, "tx_iq_real"), imag |-> GetSeq(data, "tx_iq_imag"),
                   t |-> GetSeq(data, "t")],
        !.rx_iq = [real |-> GetSeq(data, "rx_iq_real"), imag |-> GetSeq(data, "rx_iq_imag"),
                   t |-> GetSeq(data, "t")],
        !.distance_tx_ris = GetNum(data, "distance_tx_ris"),
        !.distance_ris_rx = GetNum(data, "distance_ris_rx")]

\* if (data.rx_positions && data.rx_positions.length > 0) setConfig(prev => ...)
SnapshotConfig(prev, data) ==
    IF Has(data, "rx_positions") /\ Len(data.rx_positions) > 0
    THEN [prev EXCEPT !.rx_nodes =
            [i \in 1..Len(prev.rx_nodes) |->
                [prev.rx_nodes[i] EXCEPT !.pos =
                    IF i <= Len(data.rx_positions) THEN data.rx_positions[i]
                    ELSE prev.rx_nodes[i].pos]]]
    ELSE prev

\* sendConfig: const newConfig = { ...prev, [key]: value }
SendConfigState(prev, key, value) == Put(prev, key, value)

\* loadScenario: setConfig(prev => ({ ...prev, ...freshConfig }))
LoadScenarioState(prev, fresh) == Merge(prev, fresh)

NodesKey(type) == CASE type = "tx" -> "tx_nodes" [] type = "rx" -> "rx_nodes" [] type = "ris" -> "ris_nodes"

\* nodes.findIndex(n => n.id === id): 0 when there is none (indices are 1-based here)
FindIndex(nodes, id) ==
    IF \E i \in 1..Len(nodes) : nodes[i].id = id
    THEN CHOOSE i \in 1..Len(nodes) : nodes[i].id = id /\ \A j \in 1..(i - 1) : nodes[j].id # id
    ELSE 0

\* Variant of UpdatedNodes that adds the moved node to the list instead of
\* replacing the node it was made from
UpdatedNodesAppending(prev, type, id, pos, rot) ==
    LET nodes == prev[NodesKey(type)]
        idx == FindIndex(nodes, id)
        moved == [nodes[idx] EXCEPT !.pos = pos]
    IN IF idx >= 1
       THEN Append(nodes, IF rot # NoRot THEN Put(moved, "rotation", rot) ELSE moved)
       ELSE nodes

\* handleConfigUpdate: the node list after the update
UpdatedNodes(prev, type, id, pos, rot) ==
    LET nodes == prev[NodesKey(type)]
        idx == FindIndex(nodes, id)
        moved == [nodes[idx] EXCEPT !.pos = pos]
    IN IF idx >= 1
       THEN [nodes EXCEPT ![idx] = IF rot # NoRot THEN Put(moved, "rotation", rot) ELSE moved]
       ELSE nodes

HandleConfigUpdateState(prev, type, id, pos, rot) ==
    Put(prev, NodesKey(type), UpdatedNodes(prev, type, id, pos, rot))

HandleConfigUpdateMessage(prev, type, id, pos, rot, sel) ==
    Put(SingleKeyMessage(NodesKey(type), UpdatedNodes(prev, type, id, pos, rot)),
        "selected_rx_id", sel)

----------------------------------------------------------------------------
(* The backend session.  Its code is not part of the front end's sources;  *)
(* it is modelled from the specification's Reconfigure and Tick.           *)

\* phase and tick: how far the tick in progress has come, and what its steps read
\* a receiver under random_waypoint before its first tick: at the origin, about
\* to pick its first target
WaypointStart == [pos |-> <<0, 0>>, target |-> <<0, 0>>, mode |-> "paused", dwell_left |-> 1]

DefaultBackend ==
    [session |-> FALSE, rx_mobility |-> "static", n_rx |-> 1,
     phase |-> "idle", tick |-> NullObject, waypoint |-> WaypointStart]

\* Reconfigure(delta): a partial or full update of the session's configuration
Reconfigure(b, delta) ==
    [b EXCEPT !.rx_mobility = IF Has(delta, "rx_mobility") THEN delta.rx_mobility ELSE @,
              !.n_rx = IF Has(delta, "rx_nodes") THEN Len(delta.rx_nodes) ELSE @]

\* Variant of ChannelCombiner that always takes the RIS-assisted path as the
\* effective link
ChannelCombinerRisOnly(pathloss_direct, pathloss_ris, tx_power_dbm) ==
    [pathloss_direct_db |-> pathloss_direct,
     pathloss_ris_db |-> pathloss_ris,
     ris_benefit_db |-> pathloss_direct - pathloss_ris,
     effective |-> "ris",
     effective_pathloss_db |-> pathloss_ris,
     rx_power_dbm |-> tx_power_dbm - pathloss_ris]

\* Channel Combiner (spec 4.3) for one Tx/RIS/Rx triple, in dB: the benefit of
\* the RIS, the better (lower-loss) link as the effective one, and the received
\* power over it
ChannelCombiner(pathloss_direct, pathloss_ris, tx_power_dbm) ==
    LET risBetter == pathloss_ris < pathloss_direct
        effective_pathloss == IF risBetter THEN pathloss_ris ELSE pathloss_direct
    IN [pathloss_direct_db |-> pathloss_direct,
        pathloss_ris_db |-> pathloss_ris,
        ris_benefit_db |-> pathloss_direct - pathloss_ris,
        effective |-> IF risBetter THEN "ris" ELSE "direct",
        effective_pathloss_db |-> effective_pathloss,
        rx_power_dbm |-> tx_power_dbm - effective_pathloss]

\* What the geometry, path-loss and waveform components hand a tick: the two
\* path losses of the selected Rx, the Tx power, and IQ buffers with t, real and
\* imag index-aligned, Tx and Rx on the same time axis
TickInputs ==
    {[pathloss_direct |-> 80, pathloss_ris |-> 120, tx_power_dbm |-> 20,
      tx_iq_real |-> <<10, 0>>, tx_iq_imag |-> <<0, 10>>,
      rx_iq_real |-> <<1, 0>>, rx_iq_imag |-> <<0, 1>>, t |-> <<0, 1>>,
      distance_tx_ris |-> 43, distance_ris_rx |-> 37],
     [pathloss_direct |-> 110, pathloss_ris |-> 95, tx_power_dbm |-> 23,
      tx_iq_real |-> <<10>>, tx_iq_imag |-> <<0>>,
      rx_iq_real |-> <<2>>, rx_iq_imag |-> <<0>>, t |-> <<0>>,
      distance_tx_ris |-> 100, distance_ris_rx |-> 60]}

ChannelOf(in) == ChannelCombiner(in.pathloss_direct, in.pathloss_ris, in.tx_power_dbm)

\* The Snapshot fields a tick computes from its inputs
SnapshotPayload(in) ==
    [pathloss_db |-> ChannelOf(in).effective_pathloss_db,
     rx_power_dbm |-> ChannelOf(in).rx_power_dbm,
     tx_iq_real |-> in.tx_iq_real, tx_iq_imag |-> in.tx_iq_imag,
     rx_iq_real |-> in.rx_iq_real, rx_iq_imag |-> in.rx_iq_imag, t |-> in.t,
     distance_tx_ris |-> in.distance_tx_ris, distance_ris_rx |-> in.distance_ris_rx]

SnapshotPayloads == {SnapshotPayload(in) : in \in TickInputs}

\* Where the mobility model has moved receiver i
MovedRxPos(i) == <<10 * i, 15, 20>>

\* Tick: Snapshot with rx_positions if mobility is active
Snapshot(b, payload) ==
    IF b.rx_mobility # "static"
    THEN Put(payload, "rx_positions", [i \in 1..b.n_rx |-> MovedRxPos(i)])
    ELSE payload

----------------------------------------------------------------------------
(* Inputs *)

\* parseInt of the RIS Phase options (QUANTIZATION_BITS)
RisBitsInputs == {0, 1, 2, 3}
\* parseFloat of the Freq (GHz) field: a reading, zero, a negative one, an emptied field
FrequencyInputs == {26, 0, -10, NaN}
\* MOBILITY_MODELS
MobilityInputs == {"static", "random_waypoint"}
\* where a gizmo drags a node, and how it turns a RIS panel
DragPositions == {<<10, 20, 130>>}
DragRotations == {<<0, 90, 0>>}

Ids(nodes) == {nodes[i].id : i \in 1..Len(nodes)}

----------------------------------------------------------------------------
(* Initial state: after the first render, the socket created and connecting *)

Init ==
    /\ config = InitialConfig
    /\ selectedRxId = Null
    /\ scenarioKey = 0
    /\ showHeatmap = FALSE
    /\ simulationState = InitialSimulationState
    /\ isRunning = FALSE
    /\ wsState = "CONNECTING"
    /\ fullConfigTimer = FALSE
    /\ toBackend = <<>>
    /\ fromBackend = <<>>
    /\ backend = DefaultBackend
    /\ mounted = TRUE
    /\ simClock = InitialClock
    /\ loading = FALSE
    /\ heatmapData = NullObject
    /\ error = Null
    /\ nextRefresh = 15
    /\ zoomOnRIS = FALSE
    /\ timerClosure = NullObject
    /\ inflight = <<>>
    /\ ticks = 0
    /\ autoRequests = 0

----------------------------------------------------------------------------
(* App: the WebSocket *)

\* Variant of Sent without the readyState check
SentUnchecked(msg) == Append(toBackend, msg)

\* if (ws.current?.readyState === WebSocket.OPEN) ws.current.send(...)
CanSend == wsState # "OPEN" \/ Len(toBackend) < MaxQueue
Sent(msg) == IF wsState = "OPEN" THEN Append(toBackend, msg) ELSE toBackend

\* ws.current.onopen
WsOnOpen ==
    /\ wsState = "CONNECTING"
    /\ wsState' = "OPEN"
    /\ simulationState' = [simulationState EXCEPT !.connected = TRUE]
    /\ fullConfigTimer' = TRUE
    /\ backend' = [DefaultBackend EXCEPT !.session = TRUE]
    /\ UNCHANGED <<mounted, simClock, config, selectedRxId, scenarioKey, showHeatmap, isRunning,
                   toBackend, fromBackend, heatVars>>

\* setTimeout(() => sendFullConfig(), 100)
FullConfigTimeout ==
    /\ fullConfigTimer
    /\ CanSend
    /\ fullConfigTimer' = FALSE
    /\ toBackend' = Sent(FullConfigMessage(MountClosure))
    /\ UNCHANGED <<mounted, simClock, config, selectedRxId, scenarioKey, showHeatmap, simulationState,
                   isRunning, wsState, fromBackend, backend, heatVars>>

\* ws.current.onclose: the session ends, nothing is delivered any more
WsOnClose ==
    /\ wsState \in {"CONNECTING", "OPEN", "CLOSING"}
    /\ wsState' = "CLOSED"
    /\ simulationState' = IF mounted THEN [simulationState EXCEPT !.connected = FALSE]
                         ELSE simulationState
    /\ toBackend' = <<>>
    /\ fromBackend' = <<>>
    /\ backend' = [backend EXCEPT !.session = FALSE]
    /\ UNCHANGED <<mounted, simClock, config, selectedRxId, scenarioKey, showHeatmap, isRunning,
                   fullConfigTimer, heatVars>>

\* the effect's cleanup: return () => ws.current?.close()
Unmount ==
    /\ mounted
    /\ mounted' = FALSE
    /\ wsState' = IF wsState \in {"CONNECTING", "OPEN"} THEN "CLOSING" ELSE wsState
    /\ UNCHANGED <<simClock, config, selectedRxId, scenarioKey, showHeatmap, simulationState,
                   isRunning, fullConfigTimer, toBackend, fromBackend, backend, heatVars>>

\* ws.current.onmessage
OnMessage ==
    /\ mounted
    /\ wsState = "OPEN"
    /\ fromBackend # <<>>
    /\ LET data == Head(fromBackend) IN
        /\ simulationState' = SnapshotState(simulationState, data)
        /\ config' = SnapshotConfig(config, data)
    /\ fromBackend' = Tail(fromBackend)
    /\ UNCHANGED <<mounted, simClock, selectedRxId, scenarioKey, showHeatmap, isRunning, wsState,
                   fullConfigTimer, toBackend, backend, heatVars>>

----------------------------------------------------------------------------
(* App: the user's operations *)

\* the effect on isRunning, when it starts the timer:
\* startTimeRef.current = Date.now() - (simulationTime * 1000)
TimerStarted(c) == [c EXCEPT !.startTime = c.now - c.simulationTime]

sendConfig(key, value) ==
    /\ mounted
    /\ CanSend
    /\ config' = SendConfigState(config, key, value)
    /\ toBackend' = Sent(SingleKeyMessage(key, value))
    /\ UNCHANGED <<mounted, simClock, selectedRxId, scenarioKey, showHeatmap, simulationState, isRunning,
                   wsState, fullConfigTimer, fromBackend, backend, heatVars>>

\* Variant of DefaultSelectedRx that keeps the selection across a scenario load
DefaultSelectedRxKept(freshConfig, selected) == selected

\* loadScenario: if (freshConfig.rx_nodes && freshConfig.rx_nodes.length > 0)
\*                   setSelectedRxId(freshConfig.rx_nodes[0].id)
DefaultSelectedRx(freshConfig, selected) ==
    IF Has(freshConfig, "rx_nodes") /\ Len(freshConfig.rx_nodes) > 0
    THEN freshConfig.rx_nodes[1].id ELSE selected

\* loadScenario, for at most cap loads
loadScenarioUpTo(scenarioConfig, cap) ==
    LET freshConfig == scenarioConfig IN
    /\ mounted
    /\ CanSend
    /\ scenarioKey < cap
    /\ config' = LoadScenarioState(config, freshConfig)
    /\ scenarioKey' = scenarioKey + 1
    /\ selectedRxId' = DefaultSelectedRx(freshConfig, selectedRxId)
    /\ simClock' = [simClock EXCEPT !.simulationTime = 0]
    /\ toBackend' = Sent(ScenarioMessage(freshConfig))
    /\ UNCHANGED <<mounted, showHeatmap, simulationState, isRunning, wsState, fullConfigTimer,
                   fromBackend, backend, heatVars>>

loadScenario(scenarioConfig) == loadScenarioUpTo(scenarioConfig, MaxScenarioKey)

toggleSimulation ==
    LET newState == ~isRunning IN
    /\ mounted
    /\ CanSend
    /\ isRunning' = newState
    /\ simClock' = IF newState THEN TimerStarted(simClock) ELSE [simClock EXCEPT !.simulationTime = 0]
    /\ toBackend' = Sent([running |-> newState])
    /\ UNCHANGED <<mounted, config, selectedRxId, scenarioKey, showHeatmap, simulationState,
                   wsState, fullConfigTimer, fromBackend, backend, heatVars>>

handleConfigUpdate(type, id, pos, rot) ==
    /\ mounted
    /\ CanSend
    /\ config' = HandleConfigUpdateState(config, type, id, pos, rot)
    /\ toBackend' = Sent(HandleConfigUpdateMessage(config, type, id, pos, rot, selectedRxId))
    /\ UNCHANGED <<mounted, simClock, selectedRxId, scenarioKey, showHeatmap, simulationState, isRunning,
                   wsState, fullConfigTimer, fromBackend, backend, heatVars>>

handleRxSelect(rxId) ==
    /\ mounted
    /\ CanSend
    /\ selectedRxId' = rxId
    /\ toBackend' = Sent([selected_rx_id |-> rxId])
    /\ UNCHANGED <<mounted, simClock, config, scenarioKey, showHeatmap, simulationState, isRunning,
                   wsState, fullConfigTimer, fromBackend, backend, heatVars>>

\* ConfigPanel: the RIS Phase select
ChangeRisBits == \E v \in RisBitsInputs : sendConfig("ris_bits", v)
\* ConfigPanel: the Freq (GHz) input
ChangeFrequency == \E v \in FrequencyInputs : sendConfig("frequency_ghz", v)
\* ConfigPanel: the Mobility select
ChangeMobility == \E v \in MobilityInputs : sendConfig("rx_mobility", v)
\* ConfigPanel.handleScenarioChange
ChangeScenarioTo(s) == loadScenario(SCENARIOS(s))
ChangeScenario == \E s \in ScenarioIds : ChangeScenarioTo(s)
LoadBasic == ChangeScenarioTo("basic")
LoadIndoor == ChangeScenarioTo("nlos_indoor")
\* Viewport3D: a Tx gizmo is dragged; the heatmap modal, while shown, covers the viewport
DragTx ==
    /\ ~showHeatmap
    /\ \E id \in Ids(config.tx_nodes) : \E pos \in DragPositions :
        handleConfigUpdate("tx", id, pos, NoRot)
\* Viewport3D: an Rx gizmo is dragged (Rx gizmos exist for at most 5 receivers)
DragRx ==
    /\ ~showHeatmap
    /\ Len(config.rx_nodes) <= 5
    /\ \E id \in Ids(config.rx_nodes) : \E pos \in DragPositions :
        handleConfigUpdate("rx", id, pos, NoRot)
\* Viewport3D: a RIS gizmo is dragged or turned
DragRis ==
    /\ ~showHeatmap
    /\ \E id \in Ids(config.ris_nodes) : \E pos \in DragPositions : \E rot \in DragRotations :
        handleConfigUpdate("ris", id, pos, rot)
\* Dashboard: the Select Rx list, shown when there is more than one receiver
SelectRx ==
    /\ Len(config.rx_nodes) > 1
    /\ \E rxId \in Ids(config.rx_nodes) : handleRxSelect(rxId)

----------------------------------------------------------------------------
(* Backend steps *)

\* Variant of BackendReceive that reconfigures the session between the steps of a tick
BackendReceiveAnytime ==
    /\ backend.session
    /\ toBackend # <<>>
    /\ backend' = Reconfigure(backend, Head(toBackend))
    /\ toBackend' = Tail(toBackend)
    /\ UNCHANGED <<mounted, simClock, config, selectedRxId, scenarioKey, showHeatmap, simulationState,
                   isRunning, wsState, fullConfigTimer, fromBackend, heatVars>>

\* Reconfigure takes effect between ticks, never between the steps of one
BackendReceive ==
    /\ backend.session
    /\ backend.phase = "idle"
    /\ toBackend # <<>>
    /\ backend' = Reconfigure(backend, Head(toBackend))
    /\ toBackend' = Tail(toBackend)
    /\ UNCHANGED <<mounted, simClock, config, selectedRxId, scenarioKey, showHeatmap, simulationState,
                   isRunning, wsState, fullConfigTimer, fromBackend, heatVars>>

BackendTick ==
    /\ backend.session
    /\ backend.phase = "idle"
    /\ Len(fromBackend) < MaxQueue
    /\ \E payload \in SnapshotPayloads :
        fromBackend' = Append(fromBackend, Snapshot(backend, payload))
    /\ UNCHANGED <<mounted, simClock, config, selectedRxId, scenarioKey, showHeatmap, simulationState,
                   isRunning, wsState, fullConfigTimer, toBackend, backend, heatVars>>

----------------------------------------------------------------------------
(* Heatmap: pure functions *)

gridSize == 80
Height == 15
RefreshPeriod == 15
ZoomExtent == 5
MinExtent == 100
NeedNodesError == "Need at least 1 Tx and 1 RIS"
FailedError == "Failed: Backend error"

Abs(x) == IF x < 0 THEN -x ELSE x
Max2(a, b) == IF a >= b THEN a ELSE b
\* Math.ceil(tenths / 100 * 13), in metres, for a distance given in tenths of a metre
CeilScaled(tenths) == (13 * tenths + 99) \div 100

AllNodes(cfg) ==
    (IF Has(cfg, "tx_nodes") THEN cfg.tx_nodes ELSE <<>>) \o
    (IF Has(cfg, "rx_nodes") THEN cfg.rx_nodes ELSE <<>>) \o
    (IF Has(cfg, "ris_nodes") THEN cfg.ris_nodes ELSE <<>>)

\* allNodes.forEach(node => { ... if (dist > maxDist) maxDist = dist })
RECURSIVE MaxDist(_, _)
MaxDist(nodes, maxDist) ==
    IF nodes = <<>> THEN maxDist
    ELSE LET pos == Head(nodes).pos
             dist == Max2(Abs(pos[1]), Abs(pos[3]))
         IN MaxDist(Tail(nodes), IF dist > maxDist THEN dist ELSE maxDist)

HasNodes(cfg, k) == Has(cfg, k) /\ Len(cfg[k]) > 0

\* getGridExtent, in metres
getGridExtent(cfg, zoom) ==
    IF zoom /\ HasNodes(cfg, "ris_nodes") THEN ZoomExtent
    ELSE CeilScaled(MaxDist(AllNodes(cfg), MinExtent))

\* x || fallback, for a number x read from key k of obj
OrElse(obj, k, fallback) ==
    IF Has(obj, k) /\ obj[k] # 0 /\ obj[k] # NaN THEN obj[k] ELSE fallback

RisRotation(cfg) ==
    IF Has(cfg.ris_nodes[1], "rotation") THEN cfg.ris_nodes[1].rotation ELSE <<0, 0, 0>>

\* Variant of HeatmapRequest that sends the RIS position as tx_pos
HeatmapRequestFromRis(cfg, gridExtent) ==
    [tx_pos |-> cfg.ris_nodes[1].pos,
     ris_pos |-> cfg.ris_nodes[1].pos,
     ris_rotation |-> RisRotation(cfg),
     grid_size |-> gridSize,
     grid_extent |-> gridExtent,
     height |-> Height,
     n_elements |-> OrElse(cfg.ris_nodes[1], "elements", 40),
     frequency_ghz |-> OrElse(cfg, "frequency_ghz", 55),
     tx_power_dbm |-> OrElse(cfg, "tx_power_dbm", 20),
     phase_coherence |-> OrElse(cfg, "phase_coherence", 5)]

\* the body of the POST to /api/heatmap
HeatmapRequest(cfg, gridExtent) ==
    [tx_pos |-> cfg.tx_nodes[1].pos,
     ris_pos |-> cfg.ris_nodes[1].pos,
     ris_rotation |-> RisRotation(cfg),
     grid_size |-> gridSize,
     grid_extent |-> gridExtent,
     height |-> Height,
     n_elements |-> OrElse(cfg.ris_nodes[1], "elements", 40),
     frequency_ghz |-> OrElse(cfg, "frequency_ghz", 55),
     tx_power_dbm |-> OrElse(cfg, "tx_power_dbm", 20),
     phase_coherence |-> OrElse(cfg, "phase_coherence", 5)]

\* What one call of generateHeatmap keeps across its await: the render's config
\* and the values computed before the fetch
Fetch(cfg, zoom) ==
    LET gridExtent == getGridExtent(cfg, zoom) IN
    [body |-> HeatmapRequest(cfg, gridExtent),
     config |-> cfg,
     gridExtent |-> gridExtent,
     txPos |-> cfg.tx_nodes[1].pos,
     risPos |-> cfg.ris_nodes[1].pos]

\* ComputeHeatmap(request): the backend's HeatmapResult, a function of the request
HeatmapResult(request) == [result_of |-> request]

\* Variant of StoredHeatmap that reads the rotation from the configuration of
\* the moment the response arrives
StoredHeatmapLive(f, data) ==
    Merge(data, [gridExtent |-> f.gridExtent, txPos |-> f.txPos, risPos |-> f.risPos,
                 risRotation |-> RisRotation(config)])

\* setHeatmapData({ ...data, gridExtent, txPos, risPos, risRotation })
StoredHeatmap(f, data) ==
    Merge(data, [gridExtent |-> f.gridExtent, txPos |-> f.txPos, risPos |-> f.risPos,
                 risRotation |-> RisRotation(f.config)])

MissingNodes(cfg) == ~HasNodes(cfg, "tx_nodes") \/ ~HasNodes(cfg, "ris_nodes")

\* Variant of generateHeatmap that raises the loading flag before it looks at the nodes
generateHeatmapLoadingFirst(cfg, zoom) ==
    IF MissingNodes(cfg)
    THEN /\ loading' = TRUE
         /\ error' = NeedNodesError
         /\ UNCHANGED <<heatmapData, inflight>>
    ELSE /\ Len(inflight) < MaxInflight
         /\ loading' = TRUE
         /\ error' = Null
         /\ inflight' = Append(inflight, Fetch(cfg, zoom))
         /\ UNCHANGED heatmapData

\* generateHeatmap up to its await, for the render that saw cfg and zoom, with at
\* most cap fetches pending at once
generateHeatmapUpTo(cfg, zoom, cap) ==
    IF MissingNodes(cfg)
    THEN /\ error' = NeedNodesError
         /\ UNCHANGED <<loading, heatmapData, inflight>>
    ELSE /\ Len(inflight) < cap
         /\ loading' = TRUE
         /\ error' = Null
         /\ inflight' = Append(inflight, Fetch(cfg, zoom))
         /\ UNCHANGED heatmapData

generateHeatmap(cfg, zoom) == generateHeatmapUpTo(cfg, zoom, MaxInflight)

RemoveAt(s, i) == SubSeq(s, 1, i - 1) \o SubSeq(s, i + 1, Len(s))

----------------------------------------------------------------------------
(* Heatmap: steps *)

\* App: onShowHeatmap, then the effect on isVisible
OpenHeatmap ==
    /\ mounted
    /\ ~showHeatmap
    /\ showHeatmap' = TRUE
    /\ generateHeatmap(config, zoomOnRIS)
    /\ nextRefresh' = RefreshPeriod
    /\ timerClosure' = [config |-> config, zoomOnRIS |-> zoomOnRIS]
    /\ ticks' = 0
    /\ autoRequests' = 0
    /\ UNCHANGED <<mounted, simClock, config, selectedRxId, scenarioKey, simulationState, isRunning, wsState,
                   fullConfigTimer, toBackend, fromBackend, backend, zoomOnRIS>>

\* App: onClose, then the effect's cleanup (clearInterval)
CloseHeatmap ==
    /\ mounted
    /\ showHeatmap
    /\ showHeatmap' = FALSE
    /\ timerClosure' = NullObject
    /\ UNCHANGED <<mounted, simClock, config, selectedRxId, scenarioKey, simulationState, isRunning, wsState,
                   fullConfigTimer, toBackend, fromBackend, backend, loading, heatmapData,
                   error, nextRefresh, zoomOnRIS, inflight, ticks, autoRequests>>

\* Variant of CountdownTick that refreshes one tick late (prev <= 0)
CountdownTickLate ==
    /\ mounted
    /\ showHeatmap
    /\ ticks < MaxTicks
    /\ ticks' = ticks + 1
    /\ IF nextRefresh <= 0
       THEN /\ generateHeatmap(timerClosure.config, timerClosure.zoomOnRIS)
            /\ nextRefresh' = RefreshPeriod
            /\ autoRequests' = autoRequests + 1
       ELSE /\ nextRefresh' = nextRefresh - 1
            /\ UNCHANGED <<loading, heatmapData, error, inflight, autoRequests>>
    /\ UNCHANGED <<appVars, zoomOnRIS, timerClosure>>

\* the one-second interval: setNextRefresh(prev => ...)
CountdownTick ==
    /\ mounted
    /\ showHeatmap
    /\ ticks < MaxTicks
    /\ ticks' = ticks + 1
    /\ IF nextRefresh <= 1
       THEN /\ generateHeatmap(timerClosure.config, timerClosure.zoomOnRIS)
            /\ nextRefresh' = RefreshPeriod
            /\ autoRequests' = autoRequests + 1
       ELSE /\ nextRefresh' = nextRefresh - 1
            /\ UNCHANGED <<loading, heatmapData, error, inflight, autoRequests>>
    /\ UNCHANGED <<appVars, zoomOnRIS, timerClosure>>

\* the Regenerate button, rendered with the canvas
Regenerate ==
    /\ mounted
    /\ showHeatmap
    /\ ~loading /\ error = Null /\ heatmapData # NullObject
    /\ generateHeatmap(config, zoomOnRIS)
    /\ UNCHANGED <<appVars, nextRefresh, zoomOnRIS, timerClosure, ticks, autoRequests>>

\* the Full View and Zoom RIS buttons: setZoomOnRIS(zoom); generateHeatmap()
ZoomButton(zoom) ==
    /\ mounted
    /\ showHeatmap
    /\ zoomOnRIS' = zoom
    /\ generateHeatmap(config, zoomOnRIS)
    /\ UNCHANGED <<appVars, nextRefresh, timerClosure, ticks, autoRequests>>

\* a zoom button pressed while fetches may be pending (the buttons are never
\* disabled), with at most MaxRacing fetches in flight
ZoomButtonRacing ==
    \E zoom \in BOOLEAN :
        /\ mounted
        /\ showHeatmap
        /\ zoomOnRIS' = zoom
        /\ generateHeatmapUpTo(config, zoomOnRIS, MaxRacing)
        /\ UNCHANGED <<appVars, nextRefresh, timerClosure, ticks, autoRequests>>

FullView == ZoomButton(FALSE)
ZoomRIS == ZoomButton(TRUE)

\* the fetch of inflight[i] resolves with the backend's result
FetchResolved ==
    \E i \in 1..Len(inflight) :
        /\ mounted
        /\ heatmapData' = StoredHeatmap(inflight[i], HeatmapResult(inflight[i].body))
        /\ loading' = FALSE
        /\ inflight' = RemoveAt(inflight, i)
        /\ UNCHANGED <<appVars, error, nextRefresh, zoomOnRIS, timerClosure, ticks,
                       autoRequests>>

\* the fetch of inflight[i] throws, or answers with !response.ok
FetchFailed ==
    \E i \in 1..Len(inflight) :
        /\ mounted
        /\ error' = FailedError
        /\ loading' = FALSE
        /\ inflight' = RemoveAt(inflight, i)
        /\ UNCHANGED <<appVars, heatmapData, nextRefresh, zoomOnRIS, timerClosure, ticks,
                       autoRequests>>

----------------------------------------------------------------------------
(* Specifications *)

\* Every step of the program
Next ==
    \/ Unmount
    \/ WsOnOpen
    \/ FullConfigTimeout
    \/ WsOnClose
    \/ OnMessage
    \/ ChangeRisBits
    \/ ChangeFrequency
    \/ ChangeMobility
    \/ ChangeScenario
    \/ toggleSimulation
    \/ DragTx
    \/ DragRx
    \/ DragRis
    \/ SelectRx
    \/ BackendReceive
    \/ BackendTick
    \/ OpenHeatmap
    \/ CloseHeatmap
    \/ CountdownTick
    \/ Regenerate
    \/ FullView
    \/ ZoomRIS
    \/ FetchResolved
    \/ FetchFailed

Spec == Init /\ [][Next]_vars

\* The session: the socket, the backend's ticks and the operations that change
\* what a snapshot meets (mobility, scenario, receiver positions)
SessionNext ==
    \/ WsOnOpen
    \/ FullConfigTimeout
    \/ WsOnClose
    \/ OnMessage
    \/ ChangeMobility
    \/ LoadBasic
    \/ LoadIndoor
    \/ DragRx
    \/ BackendReceive
    \/ BackendTick

SessionSpec == Init /\ [][SessionNext]_vars

\* Reconfiguration: the operations that change the configuration, and the
\* messages they send
ReconfigureNext ==
    \/ WsOnOpen
    \/ FullConfigTimeout
    \/ WsOnClose
    \/ ChangeFrequency
    \/ ChangeScenario
    \/ DragRx
    \/ DragRis
    \/ BackendReceive

ReconfigureSpec == Init /\ [][ReconfigureNext]_vars

\* The heatmap modal, with the first Tx and the RIS panel moved under it
HeatmapNext ==
    \/ LoadIndoor
    \/ DragRis
    \/ OpenHeatmap
    \/ CloseHeatmap
    \/ CountdownTick
    \/ Regenerate
    \/ FullView
    \/ ZoomRIS
    \/ FetchResolved
    \/ FetchFailed

HeatmapSpec == Init /\ [][HeatmapNext]_vars

----------------------------------------------------------------------------
(* Dashboard: the IQ charts *)

\* real[idx] || 0
SampleOrZero(samples, idx) ==
    IF idx <= Len(samples) /\ samples[idx] # NaN THEN samples[idx] ELSE 0

\* txChartData / rxChartData; t is in units of 0.1 us, so (t * 1e6).toFixed(1)
\* prints t itself
ChartData(iq) ==
    IF Len(iq.t) > 0
    THEN [idx \in 1..Len(iq.t) |->
            [time |-> iq.t[idx], I |-> SampleOrZero(iq.real, idx), Q |-> SampleOrZero(iq.imag, idx)]]
    ELSE <<[time |-> 0, I |-> 0, Q |-> 0]>>

txChartData == ChartData(simulationState.tx_iq)
rxChartData == ChartData(simulationState.rx_iq)

----------------------------------------------------------------------------
(* Claims about snapshots (SessionSpec) *)

\* A step of onmessage: the socket stays open and the oldest snapshot is consumed
Delivered ==
    /\ wsState = "OPEN" /\ wsState' = "OPEN"
    /\ fromBackend # <<>>
    /\ fromBackend' = Tail(fromBackend)

HasRxPositions(data) == Has(data, "rx_positions") /\ Len(data.rx_positions) > 0

\* C1: applying a snapshot sets pathloss_db, rx_power, tx_iq, rx_iq and the two
\* distances of simulationState from the message and leaves connected as it was;
\* in the config only Rx positions change: receiver i takes rx_positions[i] when
\* that entry is present, the number, order and ids of the receivers and every
\* other key stay, and a snapshot without rx_positions leaves the config unchanged.
C1_SnapshotFrame ==
    [][Delivered =>
        LET data == Head(fromBackend) IN
        /\ simulationState'.pathloss_db = data.pathloss_db
        /\ simulationState'.rx_power = data.rx_power_dbm
        /\ simulationState'.tx_iq =
              [real |-> data.tx_iq_real, imag |-> data.tx_iq_imag, t |-> data.t]
        /\ simulationState'.rx_iq =
              [real |-> data.rx_iq_real, imag |-> data.rx_iq_imag, t |-> data.t]
        /\ simulationState'.distance_tx_ris = data.distance_tx_ris
        /\ simulationState'.distance_ris_rx = data.distance_ris_rx
        /\ simulationState'.connected = simulationState.connected
        /\ DOMAIN config' = DOMAIN config
        /\ \A k \in DOMAIN config \ {"rx_nodes"} : config'[k] = config[k]
        /\ Len(config'.rx_nodes) = Len(config.rx_nodes)
        /\ \A i \in 1..Len(config.rx_nodes) :
              /\ DOMAIN config'.rx_nodes[i] = DOMAIN config.rx_nodes[i]
              /\ config'.rx_nodes[i].id = config.rx_nodes[i].id
              /\ config'.rx_nodes[i].pos =
                    IF HasRxPositions(data) /\ i <= Len(data.rx_positions)
                    THEN data.rx_positions[i] ELSE config.rx_nodes[i].pos
        /\ (~HasRxPositions(data) => config' = config)
    ]_vars

\* A snapshot from a session that knew one receiver has been applied to three:
\* the first receiver has moved, the second has kept the scenario's position
C1_Witness ==
    /\ simulationState.tx_iq.t # <<>>
    /\ Len(config.rx_nodes) = 3
    /\ config.rx_nodes[1].pos = MovedRxPos(1)
    /\ config.rx_nodes[2].pos = NlosIndoorScenario.rx_nodes[2].pos

\* C2: while rx_mobility is 'static', applying a snapshot changes no Rx position.
C2_StaticKeepsRxPositions ==
    [][(Delivered /\ config.rx_mobility = "static") =>
            config'.rx_nodes = config.rx_nodes]_vars

ScenarioConfigFields ==
    {"tx_nodes", "rx_nodes", "ris_nodes", "frequency_ghz", "ris_bits", "cfo",
     "phase_coherence", "rx_mobility"}

\* A step of the 100 ms timeout that sends the full configuration
FullConfigSent ==
    /\ fullConfigTimer /\ ~fullConfigTimer'
    /\ wsState = "OPEN"
    /\ Len(toBackend') = Len(toBackend) + 1

\* C3: the full configuration message sent on connection contains every
\* ScenarioConfig field.
C3_FullConfigHasEveryField ==
    [][FullConfigSent => ScenarioConfigFields \subseteq DOMAIN Last(toBackend')]_vars

Aligned(iq) == Len(iq.real) = Len(iq.t) /\ Len(iq.imag) = Len(iq.t)

PlotsEverySample(chart, iq) ==
    /\ Len(iq.t) > 0 => Len(chart) = Len(iq.t)
    /\ \A i \in 1..Len(iq.t) :
          chart[i].time = iq.t[i] /\ chart[i].I = iq.real[i] /\ chart[i].Q = iq.imag[i]

----------------------------------------------------------------------------
(* Claims about reconfiguration (ReconfigureSpec) *)

SendConfigInputs ==
    ({"ris_bits"} \X RisBitsInputs) \cup ({"frequency_ghz"} \X FrequencyInputs)
        \cup ({"rx_mobility"} \X MobilityInputs)

NodeTypes == {"tx", "rx", "ris"}

\* The states of config after one and after two applications of each update
SendConfigOnce(kv) == SendConfigState(config, kv[1], kv[2])
SendConfigTwice(kv) == SendConfigState(SendConfigOnce(kv), kv[1], kv[2])
LoadScenarioOnce(s) == LoadScenarioState(config, SCENARIOS(s))
LoadScenarioTwice(s) == LoadScenarioState(LoadScenarioOnce(s), SCENARIOS(s))
ConfigUpdateOnce(type, id, pos, rot) == HandleConfigUpdateState(config, type, id, pos, rot)
ConfigUpdateTwice(type, id, pos, rot) ==
    HandleConfigUpdateState(ConfigUpdateOnce(type, id, pos, rot), type, id, pos, rot)

IdempotentHere ==
    /\ \A kv \in SendConfigInputs : SendConfigTwice(kv) = SendConfigOnce(kv)
    /\ \A s \in ScenarioIds : LoadScenarioTwice(s) = LoadScenarioOnce(s)
    /\ \A type \in NodeTypes : \A id \in Ids(config[NodesKey(type)]) \cup {"none"} :
         \A pos \in DragPositions : \A rot \in DragRotations \cup {NoRot} :
            ConfigUpdateTwice(type, id, pos, rot) = ConfigUpdateOnce(type, id, pos, rot)

\* A step that changes config is one application of one of the updates, and a
\* second application of that update would leave the new config as it is
UpdateStepIdempotent ==
    config' # config =>
        \/ \E kv \in SendConfigInputs :
              config' = SendConfigOnce(kv) /\ SendConfigState(config', kv[1], kv[2]) = config'
        \/ \E s \in ScenarioIds :
              config' = LoadScenarioOnce(s) /\ LoadScenarioState(config', SCENARIOS(s)) = config'
        \/ \E type \in NodeTypes : \E id \in Ids(config[NodesKey(type)]) :
             \E pos \in DragPositions : \E rot \in DragRotations \cup {NoRot} :
                /\ config' = ConfigUpdateOnce(type, id, pos, rot)
                /\ HandleConfigUpdateState(config', type, id, pos, rot) = config'

\* C6: reconfiguration is idempotent: applying the same update twice in succession
\* (sendConfig(key, value), handleConfigUpdate(type, id, pos, rot) or
\* loadScenario(S)) leaves config equal to the config after applying it once.
C6_ReconfigurationIdempotent ==
    []IdempotentHere /\ [][UpdateStepIdempotent]_vars

\* A scenario has been loaded over an edited configuration, the frequency field
\* has been retyped and a RIS panel dragged and turned
C6_Witness ==
    /\ scenarioKey = 1
    /\ Len(config.ris_nodes) = 4
    /\ config.frequency_ghz = -10
    /\ \E i \in 1..Len(config.ris_nodes) :
          config.ris_nodes[i].pos \in DragPositions /\ config.ris_nodes[i].rotation \in DragRotations

FrequencyValid(x) == IsNumber(x) /\ x > 0

\* C7: a malformed update is rejected: config.frequency_ghz > 0 in every reachable
\* state, whatever is entered in the frequency field, and no message carrying a
\* non-positive or non-numeric frequency is sent.
C7_FrequencyAlwaysPositive ==
    /\ FrequencyValid(config.frequency_ghz)
    /\ \A i \in 1..Len(toBackend) :
          Has(toBackend[i], "frequency_ghz") => FrequencyValid(toBackend[i].frequency_ghz)

----------------------------------------------------------------------------
(* Claims about the heatmap (HeatmapSpec) *)

\* A step in which generateHeatmap starts a fetch
Issued == Len(inflight') = Len(inflight) + 1

\* A step of the one-second interval
Ticked == ticks' = ticks + 1

\* The config of the render whose generateHeatmap runs in this step: the interval
\* calls the one it captured when the modal opened, the buttons and the opening
\* effect call the current one
RenderConfig == IF Ticked THEN timerClosure.config ELSE config

HeatmapRequestFields ==
    {"tx_pos", "ris_pos", "ris_rotation", "grid_size", "grid_extent", "height",
     "n_elements", "frequency_ghz", "tx_power_dbm", "phase_coherence"}

\* C4: every heatmap request has exactly the ten fields tx_pos, ris_pos,
\* ris_rotation, grid_size, grid_extent, height, n_elements, frequency_ghz,
\* tx_power_dbm and phase_coherence; tx_pos is the first Tx node's position,
\* ris_pos, ris_rotation and n_elements come from the first RIS node, grid_size is
\* 80 and height is 1.5 (15 tenths).
C4_RequestFields ==
    [][Issued =>
        LET body == Last(inflight').body IN
        /\ DOMAIN body = HeatmapRequestFields
        /\ body.tx_pos = RenderConfig.tx_nodes[1].pos
        /\ body.ris_pos = RenderConfig.ris_nodes[1].pos
        /\ body.ris_rotation = RenderConfig.ris_nodes[1].rotation
        /\ body.n_elements = RenderConfig.ris_nodes[1].elements
        /\ body.grid_size = 80
        /\ body.height = 15
    ]_vars

\* A request for the indoor scenario with its RIS panel dragged and turned is in flight
C4_Witness ==
    /\ inflight # <<>>
    /\ Last(inflight).body.tx_pos = NlosIndoorScenario.tx_nodes[1].pos
    /\ Last(inflight).body.ris_pos \in DragPositions
    /\ Last(inflight).body.ris_rotation \in DragRotations
    /\ Last(inflight).body.n_elements = 256

\* C8: the grid extent, Tx position, RIS position and RIS rotation stored with a
\* heatmap result are exactly those sent in the request that produced it, even
\* if the configuration changes while the request is in flight.
C8_StoredMatchesRequest ==
    heatmapData # NullObject =>
        LET request == heatmapData.result_of IN
        /\ heatmapData.gridExtent = request.grid_extent
        /\ heatmapData.txPos = request.tx_pos
        /\ heatmapData.risPos = request.ris_pos
        /\ heatmapData.risRotation = request.ris_rotation

\* A result is stored whose Tx position, RIS position and RIS rotation are no
\* longer those of the configuration
C8_Witness ==
    /\ heatmapData # NullObject
    /\ heatmapData.txPos # config.tx_nodes[1].pos
    /\ heatmapData.risPos # config.ris_nodes[1].pos
    /\ heatmapData.risRotation # RisRotation(config)

CountdownInRange ==
    /\ nextRefresh \in 1..RefreshPeriod
    /\ showHeatmap =>
          /\ nextRefresh = RefreshPeriod - (ticks % RefreshPeriod)
          /\ autoRequests = ticks \div RefreshPeriod

RefreshSchedule ==
    /\ (~showHeatmap /\ showHeatmap') => (Issued /\ nextRefresh' = RefreshPeriod)
    /\ Ticked => (showHeatmap /\ showHeatmap' /\ (Issued <=> ticks' % RefreshPeriod = 0))
    /\ (~showHeatmap /\ ~showHeatmap') =>
          /\ nextRefresh' = nextRefresh
          /\ ticks' = ticks
          /\ Len(inflight') <= Len(inflight)

\* C9: while the modal is visible a request is issued when it opens and then once
\* after every 15 consecutive one-second ticks, the countdown staying within
\* 1..15; once it is closed no tick fires and no request is issued until it is
\* opened again.
C9_RefreshEveryFifteenTicks ==
    []CountdownInRange /\ [][RefreshSchedule]_vars

\* Thirty ticks after the modal opened, the second automatic request has been issued
C9_Witness ==
    /\ showHeatmap
    /\ ticks = 30
    /\ autoRequests = 2
    /\ nextRefresh = RefreshPeriod
    /\ inflight # <<>>

----------------------------------------------------------------------------
(* The Heatmap component on its own: config is a prop, and a parent may hand *)
(* it any configuration, one without Tx or RIS nodes included              *)

Without(obj, k) == [x \in DOMAIN obj \ {k} |-> obj[x]]

PropConfigs ==
    {InitialConfig,
     Put(InitialConfig, "tx_nodes", <<>>),
     Put(InitialConfig, "ris_nodes", <<>>),
     Without(InitialConfig, "ris_nodes")}

HeatmapPropsInit ==
    /\ config \in PropConfigs
    /\ selectedRxId = Null
    /\ scenarioKey = 0
    /\ showHeatmap = FALSE
    /\ simulationState = InitialSimulationState
    /\ isRunning = FALSE
    /\ wsState = "CONNECTING"
    /\ fullConfigTimer = FALSE
    /\ toBackend = <<>>
    /\ fromBackend = <<>>
    /\ backend = DefaultBackend
    /\ mounted = TRUE
    /\ simClock = InitialClock
    /\ loading = FALSE
    /\ heatmapData = NullObject
    /\ error = Null
    /\ nextRefresh = 15
    /\ zoomOnRIS = FALSE
    /\ timerClosure = NullObject
    /\ inflight = <<>>
    /\ ticks = 0
    /\ autoRequests = 0

\* the parent renders the component with another config
SetConfigProp ==
    /\ mounted
    /\ config' \in PropConfigs \ {config}
    /\ UNCHANGED <<mounted, simClock, selectedRxId, scenarioKey, showHeatmap, simulationState, isRunning,
                   wsState, fullConfigTimer, toBackend, fromBackend, backend, heatVars>>

HeatmapPropsNext ==
    \/ SetConfigProp
    \/ OpenHeatmap
    \/ CloseHeatmap
    \/ CountdownTick
    \/ Regenerate
    \/ FullView
    \/ ZoomRIS
    \/ FetchResolved
    \/ FetchFailed

HeatmapPropsSpec == HeatmapPropsInit /\ [][HeatmapPropsNext]_vars

\* A step in which generateHeatmap is called by a render whose config lacks a Tx
\* or a RIS node: the opening effect and the buttons call the current render's,
\* the interval the one captured when the modal opened
CalledWithoutNodes ==
    \/ /\ MissingNodes(config)
       /\ \/ (~showHeatmap /\ showHeatmap')
          \/ Regenerate
          \/ FullView
          \/ ZoomRIS
    \/ /\ Ticked /\ nextRefresh <= 1
       /\ MissingNodes(timerClosure.config)

\* C5: when the configuration has no Tx node or no RIS node, generateHeatmap sends
\* no request, sets the error 'Need at least 1 Tx and 1 RIS', and leaves loading
\* and the stored heatmap data unchanged.
C5_NoRequestWithoutNodes ==
    [][CalledWithoutNodes =>
        /\ inflight' = inflight
        /\ error' = "Need at least 1 Tx and 1 RIS"
        /\ loading' = loading
        /\ heatmapData' = heatmapData
    ]_vars

\* The error is shown over a stored heatmap while an earlier request is still loading
C5_Witness ==
    /\ showHeatmap
    /\ MissingNodes(config)
    /\ error = NeedNodesError
    /\ loading /\ inflight # <<>>
    /\ heatmapData # NullObject

----------------------------------------------------------------------------
(* Dashboard: the channel metrics card *)

\* {value?.toFixed(1) || fallback}: toFixed gives a non-empty string for every
\* number, 0 included, so the fallback shows only for undefined and null
MetricShown(value, fallback) ==
    IF value \in {Undefined, JsonNull} THEN fallback ELSE value

PathLossShown == MetricShown(simulationState.pathloss_db, 0)
RxPowerShown == MetricShown(simulationState.rx_power, -100)

\* a snapshot has been applied: every snapshot brings a non-empty time axis
SnapshotApplied == simulationState.tx_iq.t # <<>>

\* C11: the dashboard never displays a path-loss or received-power number that
\* no snapshot delivered; before the first snapshot the card shows no number.
C11_MetricsOnlyFromSnapshots ==
    ~SnapshotApplied => (~IsNumber(PathLossShown) /\ ~IsNumber(RxPowerShown))

----------------------------------------------------------------------------
(* ConfigPanel: the ids the preset scenarios give their nodes *)

Min2(a, b) == IF a <= b THEN a ELSE b

NumberedIds(prefix, first, count) ==
    [i \in 1..count |-> prefix \o ToString(first + i - 1)]

\* Variant of PolarSectorRxIds whose counter is never incremented
PolarSectorRxIdsStuck(count, radius, sectorAngleDeg, angularResolutionDeg, radialSpacing) ==
    [i \in 1..Min2(count, (radius \div radialSpacing) *
                          ((sectorAngleDeg \div angularResolutionDeg) + 1)) |-> "UE-1"]

\* generatePolarSectorRx: `UE-${id++}` for each of the first count points of the
\* numRadii x numAngles polar grid (lengths in tenths of a metre)
PolarSectorRxIds(count, radius, sectorAngleDeg, angularResolutionDeg, radialSpacing) ==
    LET numAngles == (sectorAngleDeg \div angularResolutionDeg) + 1
        numRadii == radius \div radialSpacing
    IN NumberedIds("UE-", 1, Min2(count, numRadii * numAngles))

\* generateSectorEdgeRIS: `RIS-${i + 1}`
SectorEdgeRISIds(count) == NumberedIds("RIS-", 1, count)
\* generateHexBSPositions: BS-1, then `BS-${i + 2}` for the six neighbours
HexBSIds == <<"BS-1">> \o NumberedIds("BS-", 2, 6)
\* generateCellEdgeRIS: `RIS-${id++}`
CellEdgeRISIds(risPerSector) == NumberedIds("RIS-", 1, risPerSector)
\* generateUEs: `UE-${i + 1}`
UEIds(count) == NumberedIds("UE-", 1, count)

IdSeq(nodes) == [i \in 1..Len(nodes) |-> nodes[i].id]

ScenarioNodeIds(s) ==
    [tx_nodes |-> IdSeq(s.tx_nodes), rx_nodes |-> IdSeq(s.rx_nodes),
     ris_nodes |-> IdSeq(s.ris_nodes)]

\* The ids of every entry of SCENARIOS that has a config
\* (the sigma of the Ellingson RIS ids is written s)
PresetNodeIds ==
    {ScenarioNodeIds(BasicScenario),
     [tx_nodes |-> <<"Tx">>, rx_nodes |-> PolarSectorRxIds(30, 30, 45, 10, 3),
      ris_nodes |-> <<"RIS-s1", "RIS-s2">>],
     [tx_nodes |-> <<"Tx">>, rx_nodes |-> PolarSectorRxIds(30, 40, 45, 10, 4),
      ris_nodes |-> SectorEdgeRISIds(3)],
     [tx_nodes |-> HexBSIds, rx_nodes |-> UEIds(50), ris_nodes |-> CellEdgeRISIds(4)],
     ScenarioNodeIds(MultiRisScenario),
     ScenarioNodeIds(NlosIndoorScenario)}

NodeLists == {"tx_nodes", "rx_nodes", "ris_nodes"}

Distinct(ids) == \A i, j \in 1..Len(ids) : ids[i] = ids[j] => i = j

UniqueIds ==
    /\ \A k \in NodeLists : Distinct(IdSeq(config[k]))
    /\ \A p \in PresetNodeIds : \A k \in NodeLists : Distinct(p[k])

\* A step other than a scenario load keeps every list's ids, in number and order
IdsKept ==
    scenarioKey' = scenarioKey =>
        \A k \in NodeLists : IdSeq(config'[k]) = IdSeq(config[k])

\* C12: in every reachable state the ids within rx_nodes, within tx_nodes and
\* within ris_nodes are pairwise distinct: every preset scenario produces unique
\* ids, and snapshots and position updates never add, remove or change an id.
C12_IdsUnique ==
    []UniqueIds /\ [][IdsKept]_vars

\* Three receivers of a loaded scenario, one moved by a snapshot and another dragged
C12_Witness ==
    /\ scenarioKey = 1
    /\ Len(config.rx_nodes) = 3
    /\ config.rx_nodes[1].pos = MovedRxPos(1)
    /\ config.rx_nodes[2].pos \in DragPositions
    /\ config.rx_nodes[3].id = "UE-3"

----------------------------------------------------------------------------
(* ConfigPanel: the Tx power and phase coherence sliders, with the heatmap *)

\* parseFloat of the slider's value (min 0, max 1, step 0.1), in tenths
PhaseCoherenceInputs == {0, 3, 10}
\* parseInt of the slider's value (min 0, max 46, step 1), in dBm
TxPowerInputs == {0, 30}

\* ConfigPanel: the RIS Phase Coherence slider
ChangePhaseCoherence == \E v \in PhaseCoherenceInputs : sendConfig("phase_coherence", v)
\* ConfigPanel: the Tx Power slider
ChangeTxPower == \E v \in TxPowerInputs : sendConfig("tx_power_dbm", v)

\* the label of the slider: ((config.phase_coherence || 0.5) * 100).toFixed(0) percent
PhaseCoherenceShown(cfg) == 10 * OrElse(cfg, "phase_coherence", 5)

PanelHeatmapNext ==
    \/ ChangePhaseCoherence
    \/ ChangeTxPower
    \/ OpenHeatmap
    \/ CloseHeatmap
    \/ Regenerate
    \/ FetchResolved
    \/ FetchFailed

PanelHeatmapSpec == Init /\ [][PanelHeatmapNext]_vars

PanelShowsCoherence ==
    Has(config, "phase_coherence") =>
        PhaseCoherenceShown(config) = 10 * config.phase_coherence

RequestCarriesCoherence ==
    (Issued /\ Has(config, "phase_coherence")) =>
        Last(inflight').body.phase_coherence = config.phase_coherence

\* C13: for every phase coherence c the slider can set (0 included), the heatmap
\* request issued afterwards carries phase_coherence = c and the panel displays c.
C13_CoherenceCarried ==
    []PanelShowsCoherence /\ [][RequestCarriesCoherence]_vars

\* C14: the tx_power_dbm of every heatmap request is the power of the Tx node
\* whose position is sent as tx_pos.
C14_PowerOfTxNode ==
    [][Issued =>
        Last(inflight').body.tx_power_dbm = RenderConfig.tx_nodes[1].power_dbm]_vars

----------------------------------------------------------------------------
(* ConfigPanel: the RIS Phase select *)

\* value={config.ris_bits || 2}: the option the select shows
RisBitsShown(cfg) == OrElse(cfg, "ris_bits", 2)

\* QUANTIZATION_BITS: the label of the option whose value is b
QuantizationLabel(b) ==
    CASE b = 0 -> "Continuous"
      [] b = 1 -> "1-bit (2 states)"
      [] b = 2 -> "2-bit (4 states)"
      [] b = 3 -> "3-bit (8 states)"

QuantizationNext ==
    \/ WsOnOpen
    \/ FullConfigTimeout
    \/ WsOnClose
    \/ ChangeRisBits
    \/ ChangeMobility
    \/ toggleSimulation
    \/ BackendReceive

QuantizationSpec == Init /\ [][QuantizationNext]_vars

SelectorShowsRisBits ==
    /\ config.ris_bits \in RisBitsInputs
    /\ RisBitsShown(config) = config.ris_bits
    /\ config.ris_bits = 0 => QuantizationLabel(RisBitsShown(config)) = "Continuous"

\* A step that picks another quantization option sends it when the socket is open
RisBitsSent ==
    (config'.ris_bits # config.ris_bits /\ wsState = "OPEN") =>
        /\ Len(toBackend') = Len(toBackend) + 1
        /\ Last(toBackend') = [ris_bits |-> config'.ris_bits]

\* C15: for each b in {0, 1, 2, 3}, after the user picks quantization option b,
\* config.ris_bits = b, the message {ris_bits: b} is sent when the socket is
\* open, and the selector shows the option whose value is b (0 as 'Continuous').
C15_RisBitsOption ==
    []SelectorShowsRisBits /\ [][RisBitsSent]_vars

----------------------------------------------------------------------------
(* Claims about the connection (ConnectionSpec) *)

ConnectionNext ==
    \/ WsOnOpen
    \/ FullConfigTimeout
    \/ WsOnClose
    \/ Unmount
    \/ ChangeMobility
    \/ LoadIndoor
    \/ toggleSimulation
    \/ DragRx
    \/ BackendReceive

ConnectionSpec == Init /\ [][ConnectionNext]_vars

ConnectedTracksSocket ==
    /\ mounted => (simulationState.connected <=> wsState = "OPEN")
    /\ ~mounted => wsState \in {"CLOSING", "CLOSED"}

\* The one socket of the mount is never replaced or reopened, and a message
\* leaves only through an open socket
OneSocketOpenToSend ==
    /\ wsState \in {"CLOSING", "CLOSED"} => wsState' \in {"CLOSING", "CLOSED"}
    /\ wsState = "OPEN" => wsState' \in {"OPEN", "CLOSING", "CLOSED"}
    /\ Len(toBackend') > Len(toBackend) => (mounted /\ wsState = "OPEN" /\ wsState' = "OPEN")

\* C16: connected is true exactly when the WebSocket has opened and has not
\* since closed, one socket is created per mount and it is closed on unmount,
\* and no message is ever sent while the socket is not open.
C16_ConnectionTracked ==
    []ConnectedTracksSocket /\ [][OneSocketOpenToSend]_vars

\* The app was unmounted after its session had taken a mobility change, and the
\* socket has closed
C16_Witness ==
    /\ ~mounted
    /\ wsState = "CLOSED"
    /\ backend.rx_mobility = "random_waypoint"
    /\ config.rx_mobility = "random_waypoint"
    /\ isRunning


\* The documented envelope of a message: {"type": "config_update", "data": {...}}
IsConfigUpdateEnvelope(msg) ==
    /\ DOMAIN msg = {"type", "data"}
    /\ msg.type = "config_update"

\* C17: every message the front end sends on the WebSocket has the documented
\* form {"type": "config_update", "data": {...}}, the changed fields inside data.
C17_MessagesEnveloped ==
    \A i \in 1..Len(toBackend) : IsConfigUpdateEnvelope(toBackend[i])

----------------------------------------------------------------------------
(* The backend's tick, step by step: mobility update, channel recompute,   *)
(* waveform regeneration (modelled from the specification)                 *)

\* What of the session's configuration the steps of a tick read
SessionConfig(b) == [rx_mobility |-> b.rx_mobility, n_rx |-> b.n_rx]

\* Output of the mobility model: the receivers' positions after the step
MobilityUpdate(b) ==
    IF b.rx_mobility # "static" THEN [i \in 1..b.n_rx |-> MovedRxPos(i)] ELSE <<>>

\* step 1: mobility update
TickMobility ==
    /\ backend.session
    /\ backend.phase = "idle"
    /\ Len(fromBackend) < MaxQueue
    /\ backend' = [backend EXCEPT
            !.phase = "moved",
            !.tick = [positions |-> MobilityUpdate(backend),
                      mobility_from |-> SessionConfig(backend)]]
    /\ UNCHANGED <<mounted, simClock, config, selectedRxId, scenarioKey, showHeatmap, simulationState,
                   isRunning, wsState, fullConfigTimer, toBackend, fromBackend, heatVars>>

\* step 2: channel recompute for each Rx, at the positions of step 1
TickChannel ==
    /\ backend.session
    /\ backend.phase = "moved"
    /\ \E in \in TickInputs :
        backend' = [backend EXCEPT
            !.phase = "computed",
            !.tick = Merge(@, [payload |-> SnapshotPayload(in),
                               channel |-> ChannelOf(in),
                               channel_positions |-> backend.tick.positions,
                               channel_from |-> SessionConfig(backend)])]
    /\ UNCHANGED <<mounted, simClock, config, selectedRxId, scenarioKey, showHeatmap, simulationState,
                   isRunning, wsState, fullConfigTimer, toBackend, fromBackend, heatVars>>

\* step 3: waveform regeneration; the tick returns its Snapshot
TickWaveform ==
    /\ backend.session
    /\ backend.phase = "computed"
    /\ backend' = [backend EXCEPT
            !.phase = "idle",
            !.tick = Merge(@, [waveform_from |-> SessionConfig(backend)])]
    /\ fromBackend' = Append(fromBackend, Snapshot(backend, backend.tick.payload))
    /\ UNCHANGED <<mounted, simClock, config, selectedRxId, scenarioKey, showHeatmap, simulationState,
                   isRunning, wsState, fullConfigTimer, toBackend, heatVars>>

TickNext ==
    \/ WsOnOpen
    \/ FullConfigTimeout
    \/ WsOnClose
    \/ OnMessage
    \/ ChangeMobility
    \/ LoadIndoor
    \/ BackendReceive
    \/ TickMobility
    \/ TickChannel
    \/ TickWaveform

TickSpec == Init /\ [][TickNext]_vars

\* Every step of the tick in progress, and every step of the last finished one,
\* read the configuration and the positions its mobility update left
TickFromOneConfig ==
    backend.tick # NullObject =>
        /\ backend.phase \in {"computed", "idle"} =>
              /\ backend.tick.channel_from = backend.tick.mobility_from
              /\ backend.tick.channel_positions = backend.tick.positions
        /\ backend.phase = "idle" =>
              backend.tick.waveform_from = backend.tick.mobility_from

TickStepsInOrder ==
    /\ backend'.phase # backend.phase =>
          <<backend.phase, backend'.phase>> \in
              {<<"idle", "moved">>, <<"moved", "computed">>, <<"computed", "idle">>}
    /\ (backend.session /\ SessionConfig(backend') # SessionConfig(backend)) =>
          (backend.phase = "idle" /\ backend'.phase = "idle")
    /\ Len(fromBackend') > Len(fromBackend) =>
          /\ backend.phase = "computed" /\ backend'.phase = "idle"
          /\ LET snapshot == Last(fromBackend') IN
                /\ HasRxPositions(snapshot) <=> backend'.tick.positions # <<>>
                /\ HasRxPositions(snapshot) => snapshot.rx_positions = backend'.tick.positions

\* C18: every tick runs mobility update, channel recompute and waveform
\* regeneration strictly in that order, and no reconfiguration takes effect
\* between the steps, so each snapshot's positions, metrics and IQ buffers derive
\* from the same configuration and the same post-mobility positions.
C18_TickSequential ==
    []TickFromOneConfig /\ [][TickStepsInOrder]_vars

\* A tick for three moving receivers has finished while a reconfiguration was waiting
C18_Witness ==
    /\ backend.phase = "idle"
    /\ backend.tick # NullObject
    /\ Len(backend.tick.positions) = 3
    /\ toBackend # <<>>
    /\ fromBackend # <<>>
    /\ HasRxPositions(Last(fromBackend))

----------------------------------------------------------------------------
(* Claims about the Channel Combiner (TickSpec) *)

\* path losses in dB the combiner is tried on, ties included
PathLossInputs == {80, 95, 110, 120}

BenefitAgreesWithLink(c) ==
    /\ c.ris_benefit_db = c.pathloss_direct_db - c.pathloss_ris_db
    /\ c.effective = "ris" <=> c.ris_benefit_db > 0
    /\ c.effective = "direct" <=> c.ris_benefit_db <= 0
    /\ c.effective_pathloss_db =
          IF c.ris_benefit_db > 0 THEN c.pathloss_ris_db ELSE c.pathloss_direct_db

\* C20: ris_benefit_db = pathloss_direct - pathloss_ris, and the RIS-assisted
\* path is the effective link (used for rx_power and SNR) exactly when the
\* benefit is positive, otherwise the direct path is.
C20_BenefitSignMatchesLink ==
    /\ \A d, r \in PathLossInputs : \A p \in {20, 23} :
          /\ BenefitAgreesWithLink(ChannelCombiner(d, r, p))
          /\ ChannelCombiner(d, r, p).rx_power_dbm =
                p - ChannelCombiner(d, r, p).effective_pathloss_db
    /\ (backend.tick # NullObject /\ Has(backend.tick, "channel")) =>
          /\ BenefitAgreesWithLink(backend.tick.channel)
          /\ backend.tick.payload.pathloss_db = backend.tick.channel.effective_pathloss_db
          /\ backend.tick.payload.rx_power_dbm = backend.tick.channel.rx_power_dbm

\* A tick whose RIS-assisted path is the better link has delivered its snapshot
C20_Witness ==
    /\ backend.tick # NullObject /\ Has(backend.tick, "channel")
    /\ backend.tick.channel.ris_benefit_db = 15
    /\ backend.tick.channel.effective = "ris"
    /\ simulationState.pathloss_db = 95
    /\ simulationState.rx_power = -72

----------------------------------------------------------------------------
(* Heatmap Evaluator (spec 4.6) and the claim about the Beneficial
   Utilization Ratio (EvaluatorSpec) *)

\* most cells of an evaluated grid
MaxCells == 3

\* received power in dBm of one grid cell, without the RIS and with it
CellPowers == {[direct |-> -70, combined |-> c] : c \in {-73, -70, -66}}

RECURSIVE SeqsUpTo(_, _)
SeqsUpTo(S, n) ==
    IF n = 0 THEN {<<>>}
    ELSE LET shorter == SeqsUpTo(S, n - 1) IN
         shorter \cup {Append(q, x) : q \in {p \in shorter : Len(p) = n - 1}, x \in S}

\* the grids the evaluator walks, flattened row by row; a grid has a cell
PowerGrids == SeqsUpTo(CellPowers, MaxCells) \ {<<>>}

\* gain = combined_power - direct_power, cell by cell
GainGrid(grid) == [i \in 1..Len(grid) |-> grid[i].combined - grid[i].direct]

\* Variant of CountBenefiting that also counts the cells the RIS leaves as they are
RECURSIVE CountBenefitingOrEqual(_)
CountBenefitingOrEqual(gains) ==
    IF gains = <<>> THEN 0
    ELSE (IF Head(gains) >= 0 THEN 1 ELSE 0) + CountBenefitingOrEqual(Tail(gains))

\* count of cells with gain > 0
RECURSIVE CountBenefiting(_)
CountBenefiting(gains) ==
    IF gains = <<>> THEN 0
    ELSE (IF Head(gains) > 0 THEN 1 ELSE 0) + CountBenefiting(Tail(gains))

\* BUR = (count of cells with gain > 0) / (total cells), kept as the exact ratio
BUR(gains) == [cells_benefiting |-> CountBenefiting(gains), cells |-> Len(gains)]

\* The evaluated part of a HeatmapResult for one grid
EvaluatedGrid(grid) ==
    [heatmap_direct |-> [i \in 1..Len(grid) |-> grid[i].direct],
     heatmap |-> [i \in 1..Len(grid) |-> grid[i].combined],
     heatmap_gain |-> GainGrid(grid),
     bur |-> BUR(GainGrid(grid))]

\* the fetch of inflight[i] resolves with the result the evaluator computed over
\* some grid of powers
FetchEvaluated ==
    \E i \in 1..Len(inflight), grid \in PowerGrids :
        /\ mounted
        /\ heatmapData' = StoredHeatmap(inflight[i],
                              Merge(HeatmapResult(inflight[i].body), EvaluatedGrid(grid)))
        /\ loading' = FALSE
        /\ inflight' = RemoveAt(inflight, i)
        /\ UNCHANGED <<appVars, error, nextRefresh, zoomOnRIS, timerClosure, ticks,
                       autoRequests>>

EvaluatorNext ==
    \/ OpenHeatmap
    \/ CloseHeatmap
    \/ Regenerate
    \/ FetchFailed
    \/ FetchEvaluated

EvaluatorSpec == Init /\ [][EvaluatorNext]_vars

Evaluated == Has(heatmapData, "bur")

\* C19: the Beneficial Utilization Ratio lies in [0, 1] and equals exactly
\* (number of cells with gain > 0) / (total number of cells).
C19_BurIsShareOfBenefitingCells ==
    Evaluated =>
        LET gains == heatmapData.heatmap_gain
            bur == heatmapData.bur
        IN /\ bur.cells > 0
           /\ 0 <= bur.cells_benefiting /\ bur.cells_benefiting <= bur.cells
           /\ bur.cells = Len(gains)
           /\ bur.cells_benefiting = Cardinality({i \in 1..Len(gains) : gains[i] > 0})

\* A stored result over a grid with a cell the RIS helps, one it leaves as it
\* is and one it harms: one cell of three benefits
C19_Witness ==
    /\ Evaluated
    /\ heatmapData.heatmap_gain = <<4, 0, -3>>
    /\ heatmapData.bur = [cells_benefiting |-> 1, cells |-> 3]

----------------------------------------------------------------------------
(* Mobility Model, random_waypoint (spec 4.4), and the claim about it
   (WaypointSpec).  Horizontal positions <<x, z>> in metres. *)

\* the scenario bounds: -SceneBound..SceneBound on both axes
SceneBound == 2
\* the configured dwell time, in ticks
DwellTicks == 2

InBounds(p) == /\ -SceneBound <= p[1] /\ p[1] <= SceneBound
               /\ -SceneBound <= p[2] /\ p[2] <= SceneBound

\* Variant of WaypointTargets that also picks targets one metre outside the bounds
WaypointTargetsBeyond == ((-SceneBound - 1)..(SceneBound + 1)) \X ((-SceneBound - 1)..(SceneBound + 1))

\* the points a new target is drawn from: uniformly within the scenario bounds
WaypointTargets == (-SceneBound..SceneBound) \X (-SceneBound..SceneBound)

Sign(x) == IF x > 0 THEN 1 ELSE IF x < 0 THEN -1 ELSE 0

\* one tick of movement towards the target, a metre per axis
StepTowards(pos, target) ==
    <<pos[1] + Sign(target[1] - pos[1]), pos[2] + Sign(target[2] - pos[2])>>

\* One tick of a receiver: Moving -> Target until it reaches the target, then
\* Paused for the dwell time, then a new target and Moving again
WaypointStep(w, newTarget) ==
    IF w.mode = "moving"
    THEN LET pos == StepTowards(w.pos, w.target) IN
         IF pos = w.target
         THEN [w EXCEPT !.pos = pos, !.mode = "paused", !.dwell_left = DwellTicks]
         ELSE [w EXCEPT !.pos = pos]
    ELSE IF w.dwell_left > 1
         THEN [w EXCEPT !.dwell_left = @ - 1]
         ELSE IF newTarget = w.pos
              THEN [w EXCEPT !.target = newTarget, !.dwell_left = DwellTicks]
              ELSE [w EXCEPT !.target = newTarget, !.mode = "moving", !.dwell_left = 0]

\* the mobility update of a tick under random_waypoint
MobilityStep ==
    /\ backend.session
    /\ backend.phase = "idle"
    /\ backend.rx_mobility = "random_waypoint"
    /\ \E newTarget \in WaypointTargets :
        backend' = [backend EXCEPT !.waypoint = WaypointStep(@, newTarget)]
    /\ UNCHANGED <<mounted, simClock, config, selectedRxId, scenarioKey, showHeatmap, simulationState,
                   isRunning, wsState, fullConfigTimer, toBackend, fromBackend, heatVars>>

WaypointNext ==
    \/ WsOnOpen
    \/ FullConfigTimeout
    \/ WsOnClose
    \/ ChangeMobility
    \/ BackendReceive
    \/ MobilityStep

WaypointSpec == Init /\ [][WaypointNext]_vars

WaypointInBounds == InBounds(backend.waypoint.pos) /\ InBounds(backend.waypoint.target)

\* what a tick of the mobility model may do to a receiver
WaypointPausesAndResumes ==
    LET w == backend.waypoint
        v == backend'.waypoint
    IN (backend.session /\ backend'.session /\ v # w) =>
        /\ (w.mode = "moving" /\ v.pos = w.target) =>
              (v.mode = "paused" /\ v.dwell_left = DwellTicks)
        /\ (w.mode = "moving" /\ v.pos # w.target) => (v.mode = "moving" /\ v.target = w.target)
        /\ w.mode = "paused" => v.pos = w.pos
        /\ (w.mode = "paused" /\ w.dwell_left > 1) =>
              (v.mode = "paused" /\ v.dwell_left = w.dwell_left - 1)
        /\ (w.mode = "paused" /\ v.mode = "moving") =>
              (w.dwell_left <= 1 /\ InBounds(v.target) /\ v.target # v.pos)

----------------------------------------------------------------------------
(* Claim about the full-configuration message (ConnectionSpec) *)

\* the front end's state as a render of this moment would close over it
CurrentClosure == [config |-> config, selectedRxId |-> selectedRxId, isRunning |-> isRunning]

FullConfigFired == fullConfigTimer /\ ~fullConfigTimer' /\ wsState = "OPEN"

\* C22: the full-configuration message sent 100 ms after the socket opens
\* carries the config, selectedRxId and running flag the front end has at the
\* moment it is sent.
C22_FullConfigIsCurrent ==
    [][FullConfigFired => Last(toBackend') = FullConfigMessage(CurrentClosure)]_vars

----------------------------------------------------------------------------
(* Claim about snapshots in flight when a scenario is loaded (SessionSpec) *)

\* scenario s has been loaded and its message has not reached the backend yet:
\* every snapshot in flight was computed for what was loaded before
ScenarioNotYetReceived(s) ==
    /\ config.rx_nodes = SCENARIOS(s).rx_nodes
    /\ \E i \in 1..Len(toBackend) : toBackend[i] = ScenarioMessage(SCENARIOS(s))

SnapshotDelivered == mounted /\ wsState = "OPEN" /\ fromBackend # <<>> /\ fromBackend' = Tail(fromBackend)

\* C23: after loadScenario(S) the Rx positions in the config are those of S
\* until a snapshot computed for S arrives; a snapshot computed for the scenario
\* loaded before, still in flight, does not overwrite them.
C23_StaleSnapshotIgnored ==
    [][\A s \in ScenarioIds :
          (ScenarioNotYetReceived(s) /\ SnapshotDelivered) => config'.rx_nodes = config.rx_nodes]_vars

----------------------------------------------------------------------------
(* Claim about heatmap responses arriving out of order (RaceSpec) *)

RaceNext ==
    \/ LoadIndoor
    \/ OpenHeatmap
    \/ CloseHeatmap
    \/ ZoomButtonRacing
    \/ FetchResolved
    \/ FetchFailed

RaceSpec == Init /\ [][RaceNext]_vars

\* In RaceSpec the configuration changes once, when the indoor scenario is
\* loaded: a request for the indoor transmitter was issued after every request
\* for the initial one.
ForLoadedScenario(data) ==
    Has(data, "result_of") /\ data.result_of.tx_pos = NlosIndoorScenario.tx_nodes[1].pos

LastFetchStored ==
    /\ Len(inflight) = 1 /\ inflight' = <<>>
    /\ heatmapData' # heatmapData /\ Has(heatmapData', "result_of")

\* C24: when several heatmap requests are in flight and their responses arrive
\* in any order, once all have completed the stored heatmap is the result of the
\* most recently issued request: the last response stored never replaces the
\* result of a request issued after its own.
C24_LatestRequestWins ==
    [][(LastFetchStored /\ ForLoadedScenario(heatmapData)) => ForLoadedScenario(heatmapData')]_vars

----------------------------------------------------------------------------
(* Claim about the selected receiver known to the backend (ConnectionSpec) *)

MessageSent == Len(toBackend') = Len(toBackend) + 1

\* C25: after any user operation performed while the socket is open the
\* selected_rx_id most recently sent equals selectedRxId: an operation that
\* changes selectedRxId sends the new id, and a user operation's message that
\* carries a selected_rx_id carries the current one.
C25_SelectionSent ==
    [][(wsState = "OPEN" /\ ~FullConfigFired) =>
          /\ selectedRxId' # selectedRxId =>
                /\ MessageSent
                /\ Has(Last(toBackend'), "selected_rx_id")
                /\ Last(toBackend').selected_rx_id = selectedRxId'
          /\ (MessageSent /\ Has(Last(toBackend'), "selected_rx_id")) =>
                Last(toBackend').selected_rx_id = selectedRxId']_vars

----------------------------------------------------------------------------
(* The simulation timer and the claim about the simulation clock (ClockSpec) *)

\* a tenth of a second passes; if the simulation runs, the interval fires:
\* setSimulationTime((Date.now() - startTimeRef.current) / 1000)
Elapse ==
    /\ simClock.now < MaxNow
    /\ simClock' = [simClock EXCEPT
            !.now = @ + 1,
            !.simulationTime = IF mounted /\ isRunning
                               THEN (simClock.now + 1) - simClock.startTime ELSE @]
    /\ UNCHANGED <<mounted, config, selectedRxId, scenarioKey, showHeatmap, simulationState,
                   isRunning, wsState, fullConfigTimer, toBackend, fromBackend, backend,
                   heatVars>>

ClockNext ==
    \/ WsOnOpen
    \/ FullConfigTimeout
    \/ WsOnClose
    \/ LoadIndoor
    \/ toggleSimulation
    \/ Elapse

ClockSpec == Init /\ [][ClockNext]_vars

ScenarioLoaded == scenarioKey' # scenarioKey

TimerTicked == isRunning /\ isRunning' /\ simClock'.now = simClock.now + 1

\* C26: loading a scenario resets the simulation clock: after loadScenario
\* simulationTime is 0, and while the simulation runs every timer tick after it
\* reports the time elapsed since the load, one period more at each tick.
C26_ClockResetByLoad ==
    /\ [][ScenarioLoaded => simClock'.simulationTime = 0]_vars
    /\ [][TimerTicked => simClock'.simulationTime = simClock.simulationTime + 1]_vars

----------------------------------------------------------------------------
(* Claim about the extent of the view mode (HeatmapSpec) *)

\* C27: the request triggered by pressing 'Zoom RIS' uses grid_extent = 5, the
\* one triggered by 'Full View' the full-scene extent, and every later request
\* the extent of the view mode selected when it is issued.
C27_ExtentOfSelectedView ==
    [][Issued => Last(inflight').body.grid_extent = getGridExtent(config, zoomOnRIS')]_vars

----------------------------------------------------------------------------
(* Viewport3D: what it draws, and the claim about the selected receiver
   (SessionSpec) *)

\* const [selectedNodeId, setSelectedNodeId] = useState(null); the setter is
\* never called, and the selectedRxId prop is not among the destructured props
selectedNodeId == Null

\* RxNode: isSelected={rx.id === selectedNodeId}
isSelected(rx) == rx.id = selectedNodeId

\* SignalPaths: the receivers paths are drawn to, given its selectedRxId prop
rxToShow(rxNodes, selected) ==
    IF selected # Null
    THEN SelectSeq(rxNodes, LAMBDA rx : rx.id = selected)
    ELSE SubSeq(rxNodes, 1, Min2(3, Len(rxNodes)))

\* the receivers the viewport draws paths to: <SignalPaths selectedRxId={selectedNodeId} />
PathsDrawnTo == rxToShow(config.rx_nodes, selectedNodeId)

\* C28: when a receiver is selected the viewport marks that receiver as selected
\* and draws signal paths only to it; only when none is selected does it draw
\* paths to the first three Rx nodes.
C28_ViewportFollowsSelection ==
    selectedRxId # Null =>
        /\ \A i \in 1..Len(config.rx_nodes) :
              isSelected(config.rx_nodes[i]) <=> config.rx_nodes[i].id = selectedRxId
        /\ \A i \in 1..Len(PathsDrawnTo) : PathsDrawnTo[i].id = selectedRxId

----------------------------------------------------------------------------
(* Claim about the selected receiver (SelectionSpec) *)

\* ConfigPanel.handleScenarioChange, a scenario loaded after another
ReloadScenario == \E s \in {"basic", "nlos_indoor"} : loadScenarioUpTo(SCENARIOS(s), MaxReloads)

SelectionNext ==
    \/ WsOnOpen
    \/ OnMessage
    \/ ChangeMobility
    \/ ReloadScenario
    \/ SelectRx
    \/ DragRx
    \/ BackendReceive
    \/ BackendTick

SelectionSpec == Init /\ [][SelectionNext]_vars

\* C29: in every reachable state selectedRxId is null or the id of an Rx node of
\* the current config.rx_nodes.
C29_SelectedRxExists == selectedRxId = Null \/ selectedRxId \in Ids(config.rx_nodes)

\* After a second scenario load, with the receiver moved by a snapshot: the
\* selection is the loaded scenario's only receiver
C29_Witness ==
    /\ scenarioKey = 2
    /\ Len(config.rx_nodes) = 1
    /\ selectedRxId = config.rx_nodes[1].id
    /\ config.rx_nodes[1].pos = MovedRxPos(1)

----------------------------------------------------------------------------
(* Claim about the full-view extent (HeatmapSpec) *)

\* the horizontal position of every node of cfg, in tenths of a metre, lies
\* within [-extent, extent] metres on both axes
NodesWithinSpan(cfg, extent) ==
    \A i \in 1..Len(AllNodes(cfg)) :
        /\ Abs(AllNodes(cfg)[i].pos[1]) <= 10 * extent
        /\ Abs(AllNodes(cfg)[i].pos[3]) <= 10 * extent

\* a request issued while the view mode is, and stays, Full View
IssuedInFullView == Issued /\ ~zoomOnRIS /\ ~zoomOnRIS'

\* C30: in full view the grid_extent of a heatmap request is
\* ceil(1.3 * max(10, max over all nodes of max(|x|, |z|))); it is at least 13
\* and every node's horizontal position at request time lies within
\* [-extent, extent] on both axes.
C30_FullViewExtentCoversNodes ==
    [][IssuedInFullView =>
          LET extent == Last(inflight').body.grid_extent IN
          /\ extent = CeilScaled(MaxDist(AllNodes(config), MinExtent))
          /\ extent >= 13
          /\ NodesWithinSpan(config, extent)]_vars

====
